---- MODULE Spec2Model ----
(***************************************************************************)
(* A model of shs, a small non-async HTTP/1.1 server library               *)
(* (src/src/lib.rs) together with the dict example application             *)
(* (src/examples/dict.rs).                                                 *)
(*                                                                         *)
(* Text is modelled as sequences of one-character strings, so that         *)
(* splitting, trimming, parsing and formatting are computed the way the    *)
(* code computes them.                                                     *)
(*                                                                         *)
(* Four specifications:                                                    *)
(*   Spec           a Server under construction: Server::new, then any     *)
(*                  sequence of Server::route and Server::test_request     *)
(*                  calls made by one thread;                              *)
(*   SpecServe      a built Server that is launched: the accept loop and   *)
(*                  the handler threads it spawns, each running            *)
(*                  handle_connection on the bytes its client sent;        *)
(*   SpecServeFair  SpecServe with every spawned thread scheduled;         *)
(*   SpecRequest    one handler invocation calling the response mutators   *)
(*                  of its Request.                                        *)
(***************************************************************************)
EXTENDS Integers, Sequences, FiniteSets, TLC

VARIABLES
    routes,       \* Server.routes: the Vec<Route> behind the Arc<RwLock<..>>
    routesLock,   \* the RwLock around routes: [readers, writer]
    dict,         \* DICT of the dict example: the HashMap<String, String>
    dictLock,     \* the RwLock around DICT: [readers, writer]
    last,         \* the call the building thread made last
    routeArg,     \* the arguments of the last Server::route call
    testReq,      \* the TestRequest given to the last test_request call
    testResp,     \* the Result<TestResponse> that call returned
    testInvoked,  \* the routes whose handler that call invoked, in order
    posted,       \* history: key -> value of the latest well-formed POST /dict
    phase,        \* "built" until launch has bound the listener, then "serving",
                  \* and "returned" once launch has returned
    accepted,     \* number of connections the accept loop has accepted
    conn,         \* per handler thread: the locals of handle_connection
    hreq,         \* the Request a handler invocation is mutating
    calls         \* history: the mutator calls that invocation has made

vars == <<routes, routesLock, dict, dictLock, last, routeArg, testReq, testResp,
          testInvoked, posted, phase, accepted, conn, hreq, calls>>

harnessVars == <<last, routeArg, testReq, testResp, testInvoked, posted>>
serveVars == <<phase, accepted, conn>>
handlerVars == <<hreq, calls>>

-----------------------------------------------------------------------------
(* Bounds of the model *)

\* the longest route table the building thread registers
MaxRoutes == 2

\* the number of connections the accept loop accepts
MaxAccept == 3
MaxCalls == 3

-----------------------------------------------------------------------------
(* Text *)

Min(a, b) == IF a < b THEN a ELSE b

\* `let x = value; body(x)`: the value is computed once and then used
Let(value, body(_)) == CHOOSE r \in {body(x) : x \in {value}} : TRUE

UpperCase == <<"A","B","C","D","E","F","G","H","I","J","K","L","M",
               "N","O","P","Q","R","S","T","U","V","W","X","Y","Z">>
LowerCase == <<"a","b","c","d","e","f","g","h","i","j","k","l","m",
               "n","o","p","q","r","s","t","u","v","w","x","y","z">>

\* the case folding under which two UniCase<String> header names are equal
fold_char(c) ==
    IF \E i \in 1..26 : UpperCase[i] = c
    THEN LowerCase[CHOOSE i \in 1..26 : UpperCase[i] = c]
    ELSE c

fold(s) == [i \in 1..Len(s) |-> fold_char(s[i])]

\* char::is_whitespace, on the characters the model uses
is_whitespace(c) == c \in {" ", "\n", "\r", "\t"}

\* the index of the first c in s, or 0
IndexOf(s, c) ==
    IF \E i \in 1..Len(s) : s[i] = c
    THEN CHOOSE i \in 1..Len(s) : s[i] = c /\ \A j \in 1..(i - 1) : s[j] # c
    ELSE 0

\* str::split(sep): the pieces between the separators, empty pieces included
RECURSIVE split(_, _)
split(s, sep) ==
    LET i == IndexOf(s, sep)
    IN  IF i = 0 THEN <<s>>
        ELSE <<SubSeq(s, 1, i - 1)>> \o split(SubSeq(s, i + 1, Len(s)), sep)

\* str::splitn(2, sep): split once, at the first separator
splitn2(s, sep) ==
    LET i == IndexOf(s, sep)
    IN  IF i = 0 THEN <<s>>
        ELSE <<SubSeq(s, 1, i - 1), SubSeq(s, i + 1, Len(s))>>

\* the positions where a maximal run of non-whitespace characters starts, and
\* those where one ends
WordStarts(s) ==
    {i \in 1..Len(s) : ~is_whitespace(s[i]) /\ (i = 1 \/ is_whitespace(s[i - 1]))}

WordEnds(s) ==
    {i \in 1..Len(s) : ~is_whitespace(s[i]) /\ (i = Len(s) \/ is_whitespace(s[i + 1]))}

\* the n-th smallest element of a set of numbers
Nth(S, n) == CHOOSE i \in S : Cardinality({j \in S : j <= i}) = n

\* str::split_whitespace: the maximal runs of non-whitespace characters
split_whitespace(s) ==
    [n \in 1..Cardinality(WordStarts(s)) |->
        SubSeq(s, Nth(WordStarts(s), n), Nth(WordEnds(s), n))]

\* str::trim: leading and trailing whitespace removed
RECURSIVE trim_start(_)
trim_start(s) ==
    IF s # <<>> /\ is_whitespace(s[1]) THEN trim_start(Tail(s)) ELSE s

RECURSIVE trim_end(_)
trim_end(s) ==
    IF s # <<>> /\ is_whitespace(s[Len(s)])
    THEN trim_end(SubSeq(s, 1, Len(s) - 1))
    ELSE s

trim(s) == Let(trim_start(s), LAMBDA t : trim_end(t))

Digits == <<"0","1","2","3","4","5","6","7","8","9">>

is_digit(c) == \E i \in 1..10 : Digits[i] = c

digit_value(c) == (CHOOSE i \in 1..10 : Digits[i] = c) - 1

RECURSIVE digits_value(_)
digits_value(s) ==
    IF s = <<>> THEN 0
    ELSE 10 * digits_value(SubSeq(s, 1, Len(s) - 1)) + digit_value(s[Len(s)])

\* str::parse::<usize>: an optional '+', then one or more decimal digits
\* (the model's texts are far below the overflow of usize)
parse_usize(s) ==
    LET d == IF s # <<>> /\ s[1] = "+" THEN Tail(s) ELSE s
    IN  IF d # <<>> /\ \A i \in 1..Len(d) : is_digit(d[i])
        THEN [ok |-> TRUE, value |-> digits_value(d)]
        ELSE [ok |-> FALSE, value |-> 0]

\* format!("{}", n) of an unsigned integer
RECURSIVE to_decimal(_)
to_decimal(n) ==
    IF n < 10 THEN <<Digits[n + 1]>>
    ELSE to_decimal(n \div 10) \o <<Digits[(n % 10) + 1]>>

-----------------------------------------------------------------------------
(* HashMap *)

EmptyMap == <<>>

\* HashMap::insert: the entry for k is replaced or added
insert(m, k, v) == [x \in (DOMAIN m) \cup {k} |-> IF x = k THEN v ELSE m[x]]

-----------------------------------------------------------------------------
(* Path and match_path *)

\* Path::from_str
from_str(s) == [parts |-> split(s, "/")]

starts_with(s, c) == s # <<>> /\ s[1] = c

NoMatch == [some |-> FALSE, map |-> EmptyMap]

\* the loop of match_path from the i-th zipped pair on, with the map built so far
RECURSIVE match_from(_, _, _, _)
match_from(path, route_path, i, map) ==
    IF i > Min(Len(path.parts), Len(route_path.parts))
    THEN [some |-> TRUE, map |-> map]
    ELSE LET left == path.parts[i]
             right == route_path.parts[i]
             is_placeholder == starts_with(right, ":")
         IN  IF ~is_placeholder /\ left # right
             THEN NoMatch
             ELSE match_from(path, route_path, i + 1,
                             IF is_placeholder
                             THEN insert(map, Tail(right), left)
                             ELSE map)

\* match_path without the comparison of the literal segments
match_path_unchecked(path, route_path) ==
    [some |-> TRUE,
     map |-> [n \in {Tail(route_path.parts[i]) :
                      i \in {j \in 1..Min(Len(path.parts), Len(route_path.parts)) :
                                starts_with(route_path.parts[j], ":")}} |->
                 path.parts[CHOOSE i \in 1..Min(Len(path.parts), Len(route_path.parts)) :
                               /\ route_path.parts[i] = <<":">> \o n
                               /\ \A j \in (i + 1)..Min(Len(path.parts), Len(route_path.parts)) :
                                      route_path.parts[j] # route_path.parts[i]]]]

match_path(path, route_path) == match_from(path, route_path, 1, EmptyMap)

-----------------------------------------------------------------------------
(* The texts the model uses *)

GET == <<"G","E","T">>
POST == <<"P","O","S","T">>
SP == <<" ">>
NL == <<"\n">>
sKey == <<"k","e","y">>
sDict == <<"/","d","i","c","t">>
sDictKey == sDict \o <<"/",":","k","e","y">>
sDictA == sDict \o <<"/","a">>
sDictB == sDict \o <<"/","b">>
sKeyKey == <<"/",":","k","e","y","/",":","k","e","y">>
sAB == <<"/","a","/","b">>
sNope == <<"/","n","o","p","e">>
sContentType == <<"C","o","n","t","e","n","t","-","T","y","p","e">>
sXA == <<"X","-","A">>

\* the keys and values of the DictItems the clients send
JsonKeys == {<<"a">>, <<"b">>}
JsonValues == {<<"1">>, <<"2">>}

-----------------------------------------------------------------------------
(* JSON of a DictItem {key, value} *)

DictItem(key, value) == [key |-> key, value |-> value]

\* serde_json::to_vec(&DictItem): {"key":"<key>","value":"<value>"}
to_vec(item) ==
    <<"{", "\"", "k", "e", "y", "\"", ":", "\"">> \o item.key
    \o <<"\"", ",", "\"", "v", "a", "l", "u", "e", "\"", ":", "\"">> \o item.value
    \o <<"\"", "}">>

\* serde_json::from_slice::<DictItem>, on the bodies the model's clients send:
\* the compact encoding of an item over JsonKeys and JsonValues decodes to that
\* item, every other body of the model is malformed
from_slice(bytes) ==
    IF \E k \in JsonKeys, v \in JsonValues : to_vec(DictItem(k, v)) = bytes
    THEN [ok |-> TRUE,
          item |-> CHOOSE it \in {DictItem(k, v) : k \in JsonKeys, v \in JsonValues} :
                       to_vec(it) = bytes]
    ELSE [ok |-> FALSE, item |-> DictItem(<<>>, <<>>)]

-----------------------------------------------------------------------------
(* Request: the request seen by a handler and the response it builds *)

\* the Request literal of handle_connection and of test_request
NewRequest(method, headers, body) ==
    [method |-> method,
     path_params |-> EmptyMap,
     req_headers |-> headers,
     req_body |-> body,
     status |-> "Ok",
     resp_body |-> <<>>,
     resp_headers |-> EmptyMap]

read_json(req) == from_slice(req.req_body)

set_header(req, name, value) ==
    [req EXCEPT !.resp_headers = insert(req.resp_headers, name, value)]

set_content_type(req, value) == set_header(req, sContentType, value)

TextPlain == <<"t","e","x","t","/","p","l","a","i","n",";"," ",
               "c","h","a","r","s","e","t","=","U","T","F","-","8">>
ApplicationJson == <<"a","p","p","l","i","c","a","t","i","o","n","/","j","s","o","n">>
OctetStream == <<"a","p","p","l","i","c","a","t","i","o","n","/",
                 "o","c","t","e","t","-","s","t","r","e","a","m">>

\* write_bytes that adds to the body already written
write_bytes_append(req, body) ==
    set_content_type([req EXCEPT !.resp_body = req.resp_body \o body], OctetStream)

write_bytes(req, body) ==
    set_content_type([req EXCEPT !.resp_body = body], OctetStream)

write_json(req, item) ==
    set_content_type([req EXCEPT !.resp_body = to_vec(item)], ApplicationJson)

write_text(req, body) ==
    set_content_type([req EXCEPT !.resp_body = body], TextPlain)

set_status(req, status) == [req EXCEPT !.status = status]

set_not_found(req) == set_status(req, "NotFound")

\* Request::path_param::<String>: the parse of a String never fails
path_param(req, name) ==
    IF name \in DOMAIN req.path_params
    THEN [ok |-> TRUE, value |-> req.path_params[name]]
    ELSE [ok |-> FALSE, value |-> <<>>]

-----------------------------------------------------------------------------
(* Handlers *)

\* get_dict up to the lock: the key, or the error of path_param
get_dict_key(req) == path_param(req, sKey)

\* get_dict under the read lock: the reply for the value found (or not) in DICT
get_dict_reply(req, key, d) ==
    IF key \in DOMAIN d
    THEN write_json(req, DictItem(key, d[key]))
    ELSE set_not_found(req)

\* get_dict, run without interruption
get_dict(req, d) ==
    LET key == get_dict_key(req)
    IN  IF key.ok
        THEN [req |-> get_dict_reply(req, key.value, d), dict |-> d, err |-> FALSE]
        ELSE [req |-> req, dict |-> d, err |-> TRUE]

\* post_dict, run without interruption
post_dict(req, d) ==
    LET body == read_json(req)
    IN  IF body.ok
        THEN [req |-> req, dict |-> insert(d, body.item.key, body.item.value),
              err |-> FALSE]
        ELSE [req |-> req, dict |-> d, err |-> TRUE]

\* a handler that answers with a header and a text, as the handlers of the
\* examples do
hello(req, d) ==
    [req |-> write_text(set_header(req, sXA, <<"1">>), <<"h","i">>),
     dict |-> d, err |-> FALSE]

\* a handler that has set a header, a body and a status when it fails
fails(req, d) ==
    [req |-> set_status(write_text(set_header(req, sXA, <<"1">>),
                                   <<"o","o","p","s">>), "NotFound"),
     dict |-> d, err |-> TRUE]

\* the handlers an application registers
Handlers == {"get_dict", "post_dict", "hello", "fails"}

\* (route.handler)(req)
call_handler(h, req, d) ==
    CASE h = "get_dict" -> get_dict(req, d)
      [] h = "post_dict" -> post_dict(req, d)
      [] h = "hello" -> hello(req, d)
      [] h = "fails" -> fails(req, d)

-----------------------------------------------------------------------------
(* dispatch_request *)

\* find_route where a later matching route replaces an earlier one
find_route_last(rs, method, path, i) ==
    LET M == {j \in i..Len(rs) :
                 method = rs[j].method /\ match_path(path, rs[j].path).some}
    IN  IF M = {} THEN 0 ELSE CHOOSE j \in M : \A k \in M : k <= j

\* the loop of dispatch_request from route i on: the first route with the
\* request's method whose path matches, or 0
RECURSIVE find_route(_, _, _, _)
find_route(rs, method, path, i) ==
    IF i > Len(rs) THEN 0
    ELSE IF method # rs[i].method THEN find_route(rs, method, path, i + 1)
    ELSE IF match_path(path, rs[i].path).some THEN i
    ELSE find_route(rs, method, path, i + 1)

\* not_found that leaves the status as it is
not_found_unset(req) == req

\* the request when no route matched
not_found(req) == [req EXCEPT !.status = "NotFound"]

\* the request given to the handler of route i
with_params(req, path, route) ==
    [req EXCEPT !.path_params = match_path(path, route.path).map]

\* dispatch_request, run without interruption: res is "true", "false" or "err"
dispatch_request(rs, path, req, d) ==
    LET i == find_route(rs, req.method, path, 1)
    IN  IF i = 0
        THEN [res |-> "false", req |-> not_found(req), dict |-> d,
              invoked |-> <<>>]
        ELSE LET r == call_handler(rs[i].handler, with_params(req, path, rs[i]), d)
             IN  [res |-> IF r.err THEN "err" ELSE "true", req |-> r.req,
                  dict |-> r.dict, invoked |-> <<i>>]

\* handle_result that answers an error with a fresh response
handle_result_fresh(res, req) ==
    IF res = "err"
    THEN [req EXCEPT !.resp_body = <<"i","n","t","e","r","n","a","l"," ",
                                     "s","e","r","v","e","r"," ",
                                     "e","r","r","o","r">>,
                     !.status = "InternalServerError",
                     !.resp_headers = EmptyMap]
    ELSE req

\* the match on the result of dispatch_request in handle_connection
handle_result(res, req) ==
    IF res = "err"
    THEN [req EXCEPT !.resp_body = <<"i","n","t","e","r","n","a","l"," ",
                                     "s","e","r","v","e","r"," ",
                                     "e","r","r","o","r">>,
                     !.status = "InternalServerError"]
    ELSE req

-----------------------------------------------------------------------------
(* Server::route *)

Route(method, path, handler) ==
    [method |-> method, path |-> path, handler |-> handler]

\* route that puts the new route in front of the others
route_front(rs, s, handler) ==
    LET iter == split_whitespace(s)
    IN  IF Len(iter) < 2 THEN [ok |-> FALSE, routes |-> rs]
        ELSE [ok |-> TRUE,
              routes |-> <<Route(iter[1], from_str(iter[2]), handler)>> \o rs]

\* Server::route(route, handler) on the table rs: the error, or the table
\* with the new route pushed
route(rs, s, handler) ==
    LET iter == split_whitespace(s)
    IN  IF Len(iter) < 1 THEN [ok |-> FALSE, routes |-> rs]
        ELSE IF Len(iter) < 2 THEN [ok |-> FALSE, routes |-> rs]
        ELSE [ok |-> TRUE,
              routes |-> Append(rs, Route(iter[1], from_str(iter[2]), handler))]

\* the registrations the building thread makes: those of the dict example, a
\* literal route overlapping one of them, a pattern that names one placeholder
\* twice, and two strings that miss a token
RouteInputs ==
    { [s |-> GET \o SP \o sDictKey, handler |-> "get_dict"],
      [s |-> POST \o SP \o sDict, handler |-> "post_dict"],
      [s |-> GET \o SP \o sDictA, handler |-> "hello"],
      [s |-> GET \o SP \o sKeyKey, handler |-> "fails"],
      [s |-> GET, handler |-> "hello"],
      [s |-> SP, handler |-> "hello"] }

\* the table create_server of the dict example builds
DictRoutes ==
    << Route(GET, from_str(sDictKey), "get_dict"),
       Route(POST, from_str(sDict), "post_dict") >>

-----------------------------------------------------------------------------
(* Server::test_request *)

\* Url::parse("http://example.com" + p).path(), on the paths the model uses
\* (no dot segments, no query, no character that is percent-encoded): a text
\* that does not start with '/' extends the host and leaves the path "/"
url_path(p) == IF starts_with(p, "/") THEN p ELSE <<"/">>

\* TestRequest::new_with_body(s, body), for an s of at least two tokens
new_with_body(s, body) ==
    LET parts == split_whitespace(s)
    IN  [body |-> body, method |-> parts[1], url |-> url_path(parts[2]),
         headers |-> EmptyMap]

\* TestRequest::new_with_json(s, item)
new_with_json(s, item) == new_with_body(s, to_vec(item))

\* TestRequest::new(s)
new(s) == new_with_body(s, <<>>)

\* the requests the building thread tries
TestInputs ==
    { new(GET \o SP \o sDictA),
      new(GET \o SP \o sDictB),
      new(GET \o SP \o sDict),
      new(GET \o SP \o sAB),
      new(GET \o SP \o sNope),
      new_with_json(POST \o SP \o sDict, DictItem(<<"a">>, <<"1">>)),
      new_with_json(POST \o SP \o sDict, DictItem(<<"a">>, <<"2">>)),
      new_with_json(POST \o SP \o sDictB, DictItem(<<"b">>, <<"1">>)),
      new_with_body(POST \o SP \o sDict, <<"{", "}">>) }

\* convert_header_map_to_unicase: the maps the collect can yield; of the
\* values of names equal up to case, the one iterated last is kept
convert_header_map_to_unicase(map) ==
    LET names == {fold(k) : k \in DOMAIN map}
        values(n) == {map[k] : k \in {x \in DOMAIN map : fold(x) = n}}
    IN  {f \in [names -> {map[k] : k \in DOMAIN map}] :
            \A n \in names : f[n] \in values(n)}

Err == [ok |-> FALSE, status |-> "Ok", body |-> <<>>, headers |-> EmptyMap]

Ok(status, body, headers) ==
    [ok |-> TRUE, status |-> status, body |-> body, headers |-> headers]

\* Server::test_request(input) on the table rs and the state d of DICT: the
\* results it can return, with the dispatch it made
test_request(rs, input, d) ==
    LET req == NewRequest(input.method,
                          CHOOSE h \in convert_header_map_to_unicase(input.headers) : TRUE,
                          input.body)
        path == from_str(input.url)
        r == dispatch_request(rs, path, req, d)
    IN  { [resp |-> IF r.res = "err" THEN Err
                    ELSE Ok(r.req.status, r.req.resp_body, h),
           dict |-> r.dict, invoked |-> r.invoked] :
          h \in convert_header_map_to_unicase(r.req.resp_headers) }

-----------------------------------------------------------------------------
(* Handler threads *)

\* the handler threads that run at the same time
Conns == {1, 2}

\* a thread that the accept loop has not spawned
Idle ==
    [pc |-> "idle", sent |-> <<>>, pos |-> 0, method |-> <<>>, raw_path |-> <<>>,
     headers |-> EmptyMap, req_body |-> <<>>,
     req |-> NewRequest(<<>>, EmptyMap, <<>>), route |-> 0, seen |-> EmptyMap,
     invoked |-> 0, res |-> "none", left |-> {}, out |-> <<>>, ret |-> "none",
     reset |-> FALSE]

-----------------------------------------------------------------------------
(* A Server under construction *)

\* Server::new, and DICT before its first use
Init ==
    /\ routes = <<>>
    /\ routesLock = [readers |-> 0, writer |-> FALSE]
    /\ dict = EmptyMap
    /\ dictLock = [readers |-> 0, writer |-> FALSE]
    /\ last = "new"
    /\ routeArg = [s |-> <<>>, handler |-> "hello"]
    /\ testReq = new(<<"-", " ", "-">>)
    /\ testResp = Err
    /\ testInvoked = <<>>
    /\ posted = EmptyMap
    /\ phase = "built"
    /\ accepted = 0
    /\ conn = [t \in Conns |-> Idle]
    /\ hreq = NewRequest(<<>>, EmptyMap, <<>>)
    /\ calls = <<>>

\* server.route(s, handler)?
RouteCall ==
    \E in \in RouteInputs :
        LET r == route(routes, in.s, in.handler)
        IN  /\ phase = "built"
            /\ Len(r.routes) <= MaxRoutes
            /\ routes' = r.routes
            /\ last' = IF r.ok THEN "route" ELSE "route_err"
            /\ routeArg' = in
            /\ UNCHANGED <<routesLock, dict, dictLock, testReq, testResp,
                           testInvoked, posted, serveVars, handlerVars>>

\* the history of the well-formed POST /dict requests made to the dict example
record_post(h, rs, input) ==
    LET body == from_slice(input.body)
    IN  IF rs = DictRoutes /\ input.method = POST /\ input.url = sDict /\ body.ok
        THEN insert(h, body.item.key, body.item.value)
        ELSE h

\* server.test_request(&input)
TestRequestCall ==
    \E input \in TestInputs :
        \E r \in test_request(routes, input, dict) :
            /\ phase = "built"
            /\ testReq' = input
            /\ testResp' = r.resp
            /\ testInvoked' = r.invoked
            /\ dict' = r.dict
            /\ posted' = record_post(posted, routes, input)
            /\ last' = "test_request"
            /\ UNCHANGED <<routes, routesLock, dictLock, routeArg, serveVars,
                           handlerVars>>

Next == RouteCall \/ TestRequestCall

Spec == Init /\ [][Next]_vars

-----------------------------------------------------------------------------
(* The clients of a launched Server *)

sHttp == <<"H","T","T","P","/","1",".","1">>
sHost == <<"H","o","s","t",":"," ","x">>
sHostEmpty == <<"H","o","s","t",":">>
sHostLower == <<"h","o","s","t",":","x">>
sContentLength == <<"C","o","n","t","e","n","t","-","L","e","n","g","t","h">>
sContentLengthLower == <<"c","o","n","t","e","n","t","-","l","e","n","g","t","h">>

JsonA1 == to_vec(DictItem(<<"a">>, <<"1">>))
JsonA2 == to_vec(DictItem(<<"a">>, <<"2">>))

request_line(method, path) == method \o SP \o path \o SP \o sHttp \o NL

\* the byte streams the clients send before they close their side
ClientStreams ==
    { \* GET /dict/a
      request_line(GET, sDictA) \o sHost \o NL \o NL,
      \* GET /dict
      request_line(GET, sDict) \o sHost \o NL \o NL,
      \* GET /a/b
      request_line(GET, sAB) \o sHostLower \o NL \o NL,
      \* GET /nope
      request_line(GET, sNope) \o sHost \o NL \o NL,
      \* POST /dict with {"key":"a","value":"1"}
      request_line(POST, sDict) \o sHost \o NL
          \o sContentLength \o <<":", " ">> \o to_decimal(Len(JsonA1)) \o NL \o NL
          \o JsonA1,
      \* POST /dict with {"key":"a","value":"2"}, a lower-case header name and two
      \* bytes after the body
      request_line(POST, sDict) \o sHost \o NL
          \o sContentLengthLower \o <<":">> \o to_decimal(Len(JsonA2)) \o NL \o NL
          \o JsonA2 \o <<"G", "E">>,
      \* POST /dict with a body and no Content-Length
      request_line(POST, sDict) \o sHost \o NL \o NL \o JsonA1,
      \* POST /dict with a body and a Content-Length that is no unsigned integer
      request_line(POST, sDict) \o sHost \o NL
          \o sContentLength \o <<":", " ", "-", "1">> \o NL \o NL \o JsonA1,
      \* a request line of two tokens
      GET \o SP \o sDictA \o NL \o sHost \o NL \o NL,
      \* POST /dict with a body shorter than its Content-Length
      request_line(POST, sDict) \o sHost \o NL
          \o sContentLength \o <<":", " ">> \o to_decimal(Len(JsonA1)) \o NL \o NL
          \o <<"{">>,
      \* GET /dict/a without a Host header
      request_line(GET, sDictA) \o NL,
      \* GET /dict/a with an empty Host header
      request_line(GET, sDictA) \o sHostEmpty \o NL \o NL,
      \* GET /dict/a with a Host header no URL can be built from
      request_line(GET, sDictA) \o sHost \o <<" ", "y">> \o NL \o NL,
      \* GET /dict/a with a header line that has no colon
      request_line(GET, sDictA) \o sHost \o NL \o <<"X">> \o NL \o NL,
      \* GET /dict/a closed inside the headers
      request_line(GET, sDictA) \o sHost }

\* the byte streams of the clients whose connection breaks instead: the read
\* that runs out of bytes gets an error, not the end of the stream
ResetStreams ==
    { \* inside the request line
      <<"G", "E">>,
      \* inside the headers
      request_line(GET, sDictA) \o sHost \o NL }

\* the clients: what they send and how their stream ends
Clients ==
    {[sent |-> s, reset |-> FALSE] : s \in ClientStreams}
        \cup {[sent |-> s, reset |-> TRUE] : s \in ResetStreams}

\* a second application: a literal route whose handler answers, and a route
\* whose handler fails
OtherRoutes ==
    << Route(GET, from_str(sDictA), "hello"),
       Route(GET, from_str(sKeyKey), "fails") >>

\* the tables a Server is launched with
LaunchRoutes == {DictRoutes, OtherRoutes}

-----------------------------------------------------------------------------
(* The stream and the lock *)

\* BufRead::read_line at position pos of the bytes sent: the bytes up to and
\* with the next newline, or up to the end of the stream
read_line(sent, pos) ==
    Let(SubSeq(sent, pos + 1, Len(sent)), LAMBDA rest :
        Let(IndexOf(rest, "\n"), LAMBDA i :
            IF i = 0 THEN rest ELSE SubSeq(rest, 1, i)))

\* read_line returns an error: the connection breaks before a newline comes
read_fails(sent, pos, reset) ==
    reset /\ IndexOf(SubSeq(sent, pos + 1, Len(sent)), "\n") = 0

\* HeaderName::new(name): names are compared and hashed up to case
HeaderName(name) == fold(name)

\* one pass of the header loop over the line read
insert_header(headers, line) ==
    Let(splitn2(line, ":"), LAMBDA parts :
        Let(HeaderName(parts[1]), LAMBDA name :
            Let(trim(IF Len(parts) > 1 THEN parts[2] ELSE <<>>), LAMBDA value :
                insert(headers, name, value))))

\* HeaderName::new("Content-Length".into()) and HeaderName::new("host".into())
ContentLengthName == HeaderName(sContentLength)
HostName == HeaderName(<<"h","o","s","t">>)

\* content_length that looks the header up by the name as written
content_length_cased(headers) ==
    IF sContentLength \in DOMAIN headers
    THEN parse_usize(headers[sContentLength])
    ELSE [ok |-> FALSE, value |-> 0]

\* the length of the body the headers announce, if they announce one:
\* headers.get("Content-Length") and its parse
content_length(headers) ==
    IF ContentLengthName \in DOMAIN headers
    THEN parse_usize(headers[ContentLengthName])
    ELSE [ok |-> FALSE, value |-> 0]

\* Url::parse("http://" + host) succeeds, on the hosts the model uses: a host
\* is a non-empty text without whitespace
host_ok(host) == host # <<>> /\ \A i \in 1..Len(host) : ~is_whitespace(host[i])

\* the value a reader sees while a writer is inserting it
Partial == <<"~">>

\* DICT.read() does not block
can_read(lock) == ~lock.writer

\* can_write that lets a writer in beside readers
can_write_beside_readers(lock) == ~lock.writer

\* DICT.write() does not block
can_write(lock) == ~lock.writer /\ lock.readers = 0

\* routes_guard that asks for routes.write()
routes_guard_write(lock) ==
    [ok |-> can_write(lock), lock |-> [lock EXCEPT !.writer = TRUE]]

\* routes.read().unwrap() in dispatch_request: whether it gets the guard
\* without blocking, and the lock once it has
routes_guard(lock) ==
    [ok |-> can_read(lock), lock |-> [lock EXCEPT !.readers = @ + 1]]

\* the guard on routes goes out of scope
drop_guard(lock) ==
    IF lock.writer THEN [lock EXCEPT !.writer = FALSE]
    ELSE [lock EXCEPT !.readers = @ - 1]

\* StatusCode as Display prints it, and StatusCode::canonical_reason
status_code(status) ==
    CASE status = "Ok" -> <<"2","0","0">>
      [] status = "NotFound" -> <<"4","0","4">>
      [] status = "InternalServerError" -> <<"5","0","0">>

canonical_reason(status) ==
    CASE status = "Ok" -> <<"O","K">>
      [] status = "NotFound" -> <<"N","o","t"," ","F","o","u","n","d">>
      [] status = "InternalServerError" ->
             <<"I","n","t","e","r","n","a","l"," ","S","e","r","v","e","r"," ",
               "E","r","r","o","r">>

\* format!("HTTP/1.1 {} {}\n", status, status.canonical_reason())
status_line(status) ==
    sHttp \o SP \o status_code(status) \o SP \o canonical_reason(status) \o NL

\* format!("{}: {}\n", name, value)
header_line(name, value) == name \o <<":", " ">> \o value \o NL

\* format!("Content-Length: {}\n", body.len())
content_length_line(body) ==
    sContentLength \o <<":", " ">> \o to_decimal(Len(body)) \o NL

-----------------------------------------------------------------------------
(* A launched Server *)

\* a Server built by one of the applications, before launch
InitServe ==
    /\ routes \in LaunchRoutes
    /\ routesLock = [readers |-> 0, writer |-> FALSE]
    /\ dict = EmptyMap
    /\ dictLock = [readers |-> 0, writer |-> FALSE]
    /\ last = "route"
    /\ routeArg = [s |-> <<>>, handler |-> "hello"]
    /\ testReq = new(<<"-", " ", "-">>)
    /\ testResp = Err
    /\ testInvoked = <<>>
    /\ posted = EmptyMap
    /\ phase = "built"
    /\ accepted = 0
    /\ conn = [t \in Conns |-> Idle]
    /\ hreq = NewRequest(<<>>, EmptyMap, <<>>)
    /\ calls = <<>>

\* Server::launch up to the loop: the listener is bound
Launch ==
    /\ phase = "built"
    /\ phase' = "serving"
    /\ UNCHANGED <<routes, routesLock, dict, dictLock, harnessVars, accepted,
                   conn, handlerVars>>

\* the step of thread t to the locals c, nothing else changing
Step(t, c) ==
    /\ conn' = [conn EXCEPT ![t] = c]
    /\ UNCHANGED <<routes, routesLock, dict, dictLock, harnessVars, phase,
                   accepted, handlerVars>>

\* the step of thread t that returns from dispatch_request, where the guard
\* on routes is dropped
Return(t, c) ==
    /\ conn' = [conn EXCEPT ![t] = c]
    /\ routesLock' = drop_guard(routesLock)
    /\ UNCHANGED <<routes, dict, dictLock, harnessVars, phase, accepted,
                   handlerVars>>

\* handle_connection returns the error
Abort(c) == [c EXCEPT !.pc = "done", !.ret = "err"]

\* launch: accept a connection and spawn the thread that handles it
Accept(t) ==
    /\ phase = "serving"
    /\ accepted < MaxAccept
    /\ conn[t].pc = "idle"
    /\ \A u \in Conns : u < t => conn[u].pc # "idle"
    /\ \E s \in Clients :
          conn' = [conn EXCEPT ![t] = [Idle EXCEPT !.pc = "request_line",
                                                   !.sent = s.sent,
                                                   !.reset = s.reset]]
    /\ accepted' = accepted + 1
    /\ UNCHANGED <<routes, routesLock, dict, dictLock, harnessVars, phase,
                   handlerVars>>

\* launch: listener.accept() returns an error, which `?` returns from launch;
\* the threads already spawned run on
AcceptFails ==
    /\ phase = "serving"
    /\ phase' = "returned"
    /\ UNCHANGED <<routes, routesLock, dict, dictLock, harnessVars, accepted,
                   conn, handlerVars>>

\* launch: a connection is accepted and the spawn of its thread fails; the
\* error is logged, the stream is dropped with the closure, the loop goes on
SpawnFails ==
    /\ phase = "serving"
    /\ accepted < MaxAccept
    /\ accepted' = accepted + 1
    /\ UNCHANGED <<routes, routesLock, dict, dictLock, harnessVars, phase,
                   conn, handlerVars>>

\* handle_connection: the request line
ReadRequestLine(t) ==
    LET c == conn[t]
    IN  /\ c.pc = "request_line"
        /\ \E line \in {read_line(c.sent, c.pos)} :
           \E words \in {split_whitespace(line)} :
              LET parts == SubSeq(words, 1, Min(3, Len(words)))
              IN  Step(t, IF read_fails(c.sent, c.pos, c.reset)
                         THEN Abort([c EXCEPT !.pos = Len(c.sent)])
                         ELSE IF Len(parts) # 3
                         THEN Abort([c EXCEPT !.pos = c.pos + Len(line)])
                         ELSE [c EXCEPT !.pc = "headers",
                                        !.pos = c.pos + Len(line),
                                        !.method = parts[1],
                                        !.raw_path = parts[2]])

\* ReadHeader that leaves the loop only on a line it has read
ReadHeaderUntilBlank(t) ==
    LET c == conn[t]
    IN  /\ c.pc = "headers"
        /\ \E line \in {read_line(c.sent, c.pos)} :
           Step(t, IF read_fails(c.sent, c.pos, c.reset)
                   THEN Abort([c EXCEPT !.pos = Len(c.sent)])
                   ELSE [c EXCEPT !.pos = c.pos + Len(line),
                                  !.headers = insert_header(c.headers, line),
                                  !.pc = IF line # <<>> /\ trim(line) = <<>>
                                         THEN "body" ELSE "headers"])

\* handle_connection: one pass of the header loop
ReadHeader(t) ==
    LET c == conn[t]
    IN  /\ c.pc = "headers"
        /\ \E line \in {read_line(c.sent, c.pos)} :
           Step(t, IF read_fails(c.sent, c.pos, c.reset)
                   THEN Abort([c EXCEPT !.pos = Len(c.sent)])
                   ELSE [c EXCEPT !.pos = c.pos + Len(line),
                                  !.headers = insert_header(c.headers, line),
                                  !.pc = IF trim(line) = <<>> THEN "body"
                                         ELSE "headers"])

\* ReadBody that makes do with the bytes that came
ReadBodyAvailable(t) ==
    LET c == conn[t]
    IN  /\ c.pc = "body"
        /\ \E len \in {content_length(c.headers)} :
           Step(t, IF ~len.ok THEN [c EXCEPT !.pc = "host"]
                   ELSE [c EXCEPT !.pc = "host",
                                  !.pos = Min(c.pos + len.value, Len(c.sent)),
                                  !.req_body = SubSeq(c.sent, c.pos + 1,
                                                      Min(c.pos + len.value,
                                                          Len(c.sent)))])

\* handle_connection: the body
ReadBody(t) ==
    LET c == conn[t]
    IN  /\ c.pc = "body"
        /\ \E len \in {content_length(c.headers)} :
           Step(t, IF ~len.ok THEN [c EXCEPT !.pc = "host"]
                   ELSE IF c.pos + len.value > Len(c.sent)
                   THEN Abort([c EXCEPT !.pos = Len(c.sent)])
                   ELSE [c EXCEPT !.pc = "host", !.pos = c.pos + len.value,
                                  !.req_body = SubSeq(c.sent, c.pos + 1,
                                                      c.pos + len.value)])

\* BuildRequest that goes on without a usable Host header
BuildRequestAnyHost(t) ==
    LET c == conn[t]
    IN  /\ c.pc = "host"
        /\ Step(t, [c EXCEPT !.pc = "dispatch",
                             !.req = NewRequest(c.method, c.headers, c.req_body)])

\* handle_connection: the URL and the Request
BuildRequest(t) ==
    LET c == conn[t]
    IN  /\ c.pc = "host"
        /\ Step(t, IF HostName \notin DOMAIN c.headers THEN Abort(c)
                   ELSE IF ~host_ok(c.headers[HostName]) THEN Abort(c)
                   ELSE [c EXCEPT !.pc = "dispatch",
                                  !.req = NewRequest(c.method, c.headers, c.req_body)])

\* dispatch_request: the loop up to the call of the handler. The guard on
\* routes taken for the loop is held until dispatch_request returns: at once
\* when no route matches, else when the handler has returned
Dispatch(t) ==
    LET c == conn[t]
        g == routes_guard(routesLock)
    IN  /\ c.pc = "dispatch"
        /\ g.ok
        /\ \E path \in {from_str(c.raw_path)} :
           \E i \in {find_route(routes, c.req.method, path, 1)} :
              IF i = 0
              THEN /\ conn' = [conn EXCEPT ![t] =
                                  [c EXCEPT !.pc = "result", !.res = "false",
                                            !.req = not_found(c.req)]]
                   /\ routesLock' = drop_guard(g.lock)
              ELSE /\ conn' = [conn EXCEPT ![t] =
                                  [c EXCEPT !.pc = "handler", !.route = i,
                                            !.invoked = c.invoked + 1,
                                            !.req = with_params(c.req, path,
                                                                routes[i])]]
                   /\ routesLock' = g.lock
        /\ UNCHANGED <<routes, dict, dictLock, harnessVars, phase, accepted,
                       handlerVars>>

\* the result of dispatch_request after the handler has returned
returned(c, req, err) ==
    [c EXCEPT !.pc = "result", !.req = req, !.res = IF err THEN "err" ELSE "true"]

\* dispatch_request: a handler that does not use DICT runs
CallHandler(t) ==
    LET c == conn[t]
        h == routes[c.route].handler
        r == call_handler(h, c.req, dict)
    IN  /\ c.pc = "handler"
        /\ h \notin {"get_dict", "post_dict"}
        /\ Return(t, returned(c, r.req, r.err))

\* get_dict: path_param fails
GetDictNoKey(t) ==
    LET c == conn[t]
    IN  /\ c.pc = "handler"
        /\ routes[c.route].handler = "get_dict"
        /\ ~get_dict_key(c.req).ok
        /\ Return(t, returned(c, c.req, TRUE))

\* get_dict: DICT.read().unwrap().get(&key).cloned()
GetDictRead(t) ==
    LET c == conn[t]
        key == get_dict_key(c.req)
    IN  /\ c.pc = "handler"
        /\ routes[c.route].handler = "get_dict"
        /\ key.ok
        /\ can_read(dictLock)
        /\ dictLock' = [dictLock EXCEPT !.readers = @ + 1]
        /\ conn' = [conn EXCEPT ![t] =
                       [c EXCEPT !.pc = "get_held",
                                 !.seen = [k \in {key.value} \cap DOMAIN dict |-> dict[k]]]]
        /\ UNCHANGED <<routes, routesLock, dict, harnessVars, phase, accepted, handlerVars>>

\* get_dict: the reply, at whose end the read guard is dropped
GetDictReply(t) ==
    LET c == conn[t]
    IN  /\ c.pc = "get_held"
        /\ dictLock' = [dictLock EXCEPT !.readers = @ - 1]
        /\ routesLock' = drop_guard(routesLock)
        /\ conn' = [conn EXCEPT ![t] =
                       returned(c, get_dict_reply(c.req, get_dict_key(c.req).value, c.seen),
                                FALSE)]
        /\ UNCHANGED <<routes, dict, harnessVars, phase, accepted, handlerVars>>

\* post_dict: read_json fails
PostDictNoBody(t) ==
    LET c == conn[t]
    IN  /\ c.pc = "handler"
        /\ routes[c.route].handler = "post_dict"
        /\ ~read_json(c.req).ok
        /\ Return(t, returned(c, c.req, TRUE))

\* post_dict: DICT.write().unwrap()
PostDictWrite(t) ==
    LET c == conn[t]
    IN  /\ c.pc = "handler"
        /\ routes[c.route].handler = "post_dict"
        /\ read_json(c.req).ok
        /\ can_write(dictLock)
        /\ dictLock' = [dictLock EXCEPT !.writer = TRUE]
        /\ conn' = [conn EXCEPT ![t] = [c EXCEPT !.pc = "post_held"]]
        /\ UNCHANGED <<routes, routesLock, dict, harnessVars, phase, accepted, handlerVars>>

\* post_dict: insert starts to write the entry
PostDictInsert(t) ==
    LET c == conn[t]
    IN  /\ c.pc = "post_held"
        /\ dict' = insert(dict, read_json(c.req).item.key, Partial)
        /\ conn' = [conn EXCEPT ![t] = [c EXCEPT !.pc = "post_insert"]]
        /\ UNCHANGED <<routes, routesLock, dictLock, harnessVars, phase, accepted,
                       handlerVars>>

\* post_dict: insert has written the entry, and the write guard is dropped
PostDictDone(t) ==
    LET c == conn[t]
        body == read_json(c.req)
    IN  /\ c.pc = "post_insert"
        /\ dict' = insert(dict, body.item.key, body.item.value)
        /\ dictLock' = [dictLock EXCEPT !.writer = FALSE]
        /\ conn' = [conn EXCEPT ![t] = returned(c, c.req, FALSE)]
        /\ routesLock' = drop_guard(routesLock)
        /\ UNCHANGED <<routes, harnessVars, phase, accepted, handlerVars>>

\* handle_connection: the match on the result of dispatch_request
HandleResult(t) ==
    LET c == conn[t]
    IN  /\ c.pc = "result"
        /\ Step(t, [c EXCEPT !.pc = "write_status",
                             !.req = handle_result(c.res, c.req)])

\* handle_connection: the status line is written. The stream is a BufStream:
\* write_all fills its buffer, which the responses of the model never exceed,
\* so no write of the model fails; out is what has been handed to write_all
WriteStatus(t) ==
    LET c == conn[t]
    IN  /\ c.pc = "write_status"
        /\ Step(t, [c EXCEPT !.pc = "write_headers",
                             !.out = c.out \o status_line(c.req.status),
                             !.left = DOMAIN c.req.resp_headers])

\* handle_connection: one pass of the loop over resp_headers, which iterates
\* in an order of the HashMap's choosing
WriteHeader(t) ==
    LET c == conn[t]
    IN  /\ c.pc = "write_headers"
        /\ \E name \in c.left :
              Step(t, [c EXCEPT !.out = c.out \o header_line(name, c.req.resp_headers[name]),
                                !.left = c.left \ {name}])

\* WriteContentLength that does not wait for the end of the header loop
WriteContentLengthEarly(t) ==
    LET c == conn[t]
    IN  /\ c.pc = "write_headers"
        /\ Step(t, [c EXCEPT !.pc = "write_blank",
                             !.out = c.out \o content_length_line(c.req.resp_body)])

\* handle_connection: the Content-Length line is written
WriteContentLength(t) ==
    LET c == conn[t]
    IN  /\ c.pc = "write_headers"
        /\ c.left = {}
        /\ Step(t, [c EXCEPT !.pc = "write_blank",
                             !.out = c.out \o content_length_line(c.req.resp_body)])

\* handle_connection: the blank line is written
WriteBlank(t) ==
    LET c == conn[t]
    IN  /\ c.pc = "write_blank"
        /\ Step(t, [c EXCEPT !.pc = "write_body", !.out = c.out \o NL])

\* handle_connection: the body is written, and handle_connection returns
WriteBody(t) ==
    LET c == conn[t]
    IN  /\ c.pc = "write_body"
        /\ Step(t, [c EXCEPT !.pc = "done", !.ret = "ok",
                             !.out = c.out \o c.req.resp_body])

\* Exit that reads the next request from the same stream
ExitKeepAlive(t) ==
    /\ conn[t].pc = "done"
    /\ Step(t, [conn[t] EXCEPT !.pc = "request_line", !.ret = "none"])

\* the thread ends
Exit(t) ==
    /\ conn[t].pc = "done"
    /\ Step(t, Idle)

\* a step of the spawned thread t
ThreadStep(t) ==
    \/ ReadRequestLine(t)
    \/ ReadHeader(t)
    \/ ReadBody(t)
    \/ BuildRequest(t)
    \/ Dispatch(t)
    \/ CallHandler(t)
    \/ GetDictNoKey(t)
    \/ GetDictRead(t)
    \/ GetDictReply(t)
    \/ PostDictNoBody(t)
    \/ PostDictWrite(t)
    \/ PostDictInsert(t)
    \/ PostDictDone(t)
    \/ HandleResult(t)
    \/ WriteStatus(t)
    \/ WriteHeader(t)
    \/ WriteContentLength(t)
    \/ WriteBlank(t)
    \/ WriteBody(t)
    \/ Exit(t)

NextServe ==
    \/ Launch
    \/ AcceptFails
    \/ SpawnFails
    \/ \E t \in Conns : Accept(t) \/ ThreadStep(t)

SpecServe == InitServe /\ [][NextServe]_vars

\* SpecServe with every spawned thread scheduled as long as it can take a
\* step: the client has sent its bytes and closed or broken the stream, the
\* handlers return, and a thread waiting for a lock gets it once it is free
SpecServeFair == SpecServe /\ \A t \in Conns : WF_vars(ThreadStep(t))

-----------------------------------------------------------------------------
(* Properties of a Server under construction *)

\* the Path of the last test request
testPath == from_str(testReq.url)

\* the positions of the placeholder segments of a pattern
Placeholders(P) == {j \in 1..Len(P) : starts_with(P[j], ":")}

\* every segment of P that is no placeholder equals the segment of Q there
LiteralsEqual(Q, P) ==
    \A j \in 1..Len(P) : j \notin Placeholders(P) => P[j] = Q[j]

\* C1: a request path and a pattern with different numbers of segments never
\* match, so a test request never invokes the handler of a route whose pattern
\* has another number of segments than the request path.
C1_SegmentCountsMustAgree ==
    last = "test_request" =>
        /\ \A i \in 1..Len(routes) :
              Len(routes[i].path.parts) # Len(testPath.parts)
                  => ~match_path(testPath, routes[i].path).some
        /\ \A k \in 1..Len(testInvoked) :
              Len(routes[testInvoked[k]].path.parts) = Len(testPath.parts)

\* the routes with the method of the last test request whose pattern matches
\* its path
Matching ==
    {i \in 1..Len(routes) :
        routes[i].method = testReq.method /\ match_path(testPath, routes[i].path).some}

\* C2: a dispatch invokes the handler of the earliest registered route whose
\* method equals the request's and whose pattern matches its path, and no other
\* handler; routes of another method are skipped.
C2_FirstMatchWins ==
    last = "test_request" =>
        IF Matching = {} THEN testInvoked = <<>>
        ELSE testInvoked = <<CHOOSE i \in Matching : \A j \in Matching : i <= j>>

\* C2 witness: a request that a placeholder route and a later literal route
\* both match has invoked the handler of the placeholder route.
C2_Witness ==
    /\ last = "test_request"
    /\ Len(routes) = 2
    /\ Matching = {1, 2}
    /\ Placeholders(routes[2].path.parts) = {}
    /\ Placeholders(routes[1].path.parts) # {}
    /\ testInvoked = <<1>>

\* C3 as claimed: with equal segment counts the match succeeds iff the literal
\* segments agree, and it binds the name of every placeholder segment to the
\* request segment at that position, and nothing else.
C3_BindsEveryPlaceholder ==
    last = "test_request" =>
        \A i \in 1..Len(routes) :
            LET P == routes[i].path.parts
                Q == testPath.parts
                m == match_path(testPath, routes[i].path)
            IN  Len(P) = Len(Q) =>
                    /\ m.some <=> LiteralsEqual(Q, P)
                    /\ m.some =>
                          /\ DOMAIN m.map = {Tail(P[j]) : j \in Placeholders(P)}
                          /\ \A j \in Placeholders(P) : m.map[Tail(P[j])] = Q[j]

\* C3 amended: with equal segment counts the match succeeds iff the literal
\* segments agree, and it binds every placeholder name of the pattern, and
\* nothing else, to the request segment at the last position where the pattern
\* has that placeholder.
C3_BindsLastPlaceholder ==
    last = "test_request" =>
        \A i \in 1..Len(routes) :
            LET P == routes[i].path.parts
                Q == testPath.parts
                m == match_path(testPath, routes[i].path)
            IN  Len(P) = Len(Q) =>
                    /\ m.some <=> LiteralsEqual(Q, P)
                    /\ m.some =>
                          /\ DOMAIN m.map = {Tail(P[j]) : j \in Placeholders(P)}
                          /\ \A j \in Placeholders(P) :
                                (\A k \in Placeholders(P) : P[k] = P[j] => k <= j)
                                    => m.map[Tail(P[j])] = Q[j]

\* C3 witness: a pattern with a placeholder has been matched against a path of
\* as many segments, and another pattern of as many segments has not matched.
C3_Witness ==
    /\ last = "test_request"
    /\ \E i \in 1..Len(routes) :
          /\ Len(routes[i].path.parts) = Len(testPath.parts)
          /\ Placeholders(routes[i].path.parts) # {}
          /\ match_path(testPath, routes[i].path).some
    /\ \E i \in 1..Len(routes) :
          /\ Len(routes[i].path.parts) = Len(testPath.parts)
          /\ ~match_path(testPath, routes[i].path).some

\* the response handle_connection builds for the last test request; the
\* handlers of the model answer a repeated request alike, so the state of DICT
\* after the request stands for the one before it
connOutcome ==
    LET r == dispatch_request(
                 routes, testPath,
                 NewRequest(testReq.method, EmptyMap, testReq.body), dict)
    IN  handle_result(r.res, r.req)

\* C6: test_request returns a response with the status, the body and the
\* headers handle_connection serializes for the same request, whether the
\* handler succeeds, no route matches, or the handler fails.
C6_HarnessAgrees ==
    last = "test_request" =>
        /\ testResp.ok
        /\ testResp.status = connOutcome.status
        /\ testResp.body = connOutcome.resp_body
        /\ testResp.headers \in convert_header_map_to_unicase(connOutcome.resp_headers)

\* C8: with the routes of the dict example, GET /dict/k answers 404 when no
\* earlier POST /dict stored k and else 200 with the item of the latest such
\* POST; a well-formed POST /dict answers 200.
C8_DictExample ==
    (routes = DictRoutes /\ last = "test_request") =>
        /\ \A k \in JsonKeys :
              (testReq.method = GET /\ testReq.url = sDict \o <<"/">> \o k) =>
                  /\ testResp.ok
                  /\ IF k \in DOMAIN posted
                     THEN /\ testResp.status = "Ok"
                          /\ testResp.body = to_vec(DictItem(k, posted[k]))
                     ELSE testResp.status = "NotFound"
        /\ (testReq.method = POST /\ testReq.url = sDict /\ from_slice(testReq.body).ok)
              => (testResp.ok /\ testResp.status = "Ok")

-----------------------------------------------------------------------------
(* Properties of a launched Server *)

InternalServerErrorBody ==
    <<"i","n","t","e","r","n","a","l"," ","s","e","r","v","e","r"," ","e","r","r","o","r">>

\* the thread has a result of dispatch_request and has handled it
Answering(c) ==
    c.pc \in {"write_status", "write_headers", "write_blank", "write_body"}
    \/ (c.pc = "done" /\ c.ret = "ok")

\* the response headers the handler of the route the thread matched sets for
\* the thread's request
HandlerHeaders(c) ==
    call_handler(routes[c.route].handler,
                 with_params(NewRequest(c.method, c.headers, c.req_body),
                             from_str(c.raw_path), routes[c.route]),
                 dict).req.resp_headers

\* the lines of the head of a response, without their newlines
HeadLines(out) == split(out, "\n")

\* C4: when the handler fails the response has status 500 and the body
\* "internal server error", the headers the handler had set are still emitted,
\* and handle_connection returns normally once the response is written.
C4_HandlerFailure ==
    \A t \in Conns :
        LET c == conn[t]
        IN  (c.res = "err" /\ c.pc \notin {"handler", "result"}) =>
                /\ Answering(c)
                /\ c.req.status = "InternalServerError"
                /\ c.req.resp_body = InternalServerErrorBody
                /\ c.pc = "done" =>
                      /\ c.ret = "ok"
                      /\ SubSeq(c.out, 1, Len(status_line("InternalServerError")))
                            = status_line("InternalServerError")
                      /\ \A n \in DOMAIN HandlerHeaders(c) :
                            \E i \in 1..Len(HeadLines(c.out)) :
                                HeadLines(c.out)[i] \o NL
                                    = header_line(n, HandlerHeaders(c)[n])
                      /\ SubSeq(c.out, Len(c.out) - Len(InternalServerErrorBody) + 1,
                                Len(c.out)) = InternalServerErrorBody

\* C4 witness: a handler that had set headers, a body and a status has failed,
\* and the response is written.
C4_Witness ==
    \E t \in Conns :
        /\ conn[t].res = "err"
        /\ conn[t].pc = "done"
        /\ routes[conn[t].route].handler = "fails"
        /\ DOMAIN HandlerHeaders(conn[t]) # {}

\* no route has the method of the thread's request and a pattern matching its path
NoRouteMatches(c) ==
    \A i \in 1..Len(routes) :
        routes[i].method # c.method \/ ~match_path(from_str(c.raw_path), routes[i].path).some

\* the thread is past the loop of dispatch_request
Dispatched(c) ==
    c.pc \in {"handler", "get_held", "post_held", "post_insert", "result"} \/ Answering(c)

\* C5: when no route matches the method and the path, no handler is invoked,
\* the response is 404 with an empty body and no headers but Content-Length,
\* and the route table is never changed.
C5_NotFound ==
    /\ [](\A t \in Conns :
            LET c == conn[t]
            IN  (Dispatched(c) /\ NoRouteMatches(c)) =>
                    /\ c.route = 0
                    /\ c.res = "false"
                    /\ c.req.status = "NotFound"
                    /\ c.req.resp_body = <<>>
                    /\ c.req.resp_headers = EmptyMap
                    /\ c.pc = "done" =>
                          c.out = status_line("NotFound") \o content_length_line(<<>>) \o NL)
    /\ [][routes' = routes]_vars

\* C5 witness: a request that no route matches has been answered.
C5_Witness ==
    \E t \in Conns :
        /\ conn[t].pc = "done"
        /\ conn[t].ret = "ok"
        /\ NoRouteMatches(conn[t])

\* the threads holding write access to DICT, and those holding read access
Writers == {t \in Conns : conn[t].pc \in {"post_held", "post_insert"}}
Readers == {t \in Conns : conn[t].pc = "get_held"}

\* C7: at most one handler holds write access to DICT, none holds read access
\* while another holds write access, and what a handler reads, and what DICT
\* holds when no writer is in it, is a value some request posted.
C7_WritesExclusive ==
    /\ Cardinality(Writers) <= 1
    /\ Writers # {} => Readers = {}
    /\ \A t \in Readers : \A k \in DOMAIN conn[t].seen : conn[t].seen[k] \in JsonValues
    /\ Writers = {} => \A k \in DOMAIN dict : dict[k] \in JsonValues

\* C7 witness: after two connections have posted values for the same key, a
\* third reads one of them while a reader and a blocked writer meet.
C7_Witness ==
    /\ accepted = 3
    /\ \E t \in Readers : conn[t].seen = (<<"a">> :> <<"2">>)
    /\ \E u \in Conns :
          /\ conn[u].pc = "handler"
          /\ routes[conn[u].route].handler = "post_dict"
          /\ read_json(conn[u].req).ok

\* the end of the first line at or after position pos that is blank, or the
\* end of the stream
RECURSIVE BlankLineEnd(_, _)
BlankLineEnd(sent, pos) ==
    IF pos >= Len(sent) THEN Len(sent)
    ELSE LET nl == IndexOf(SubSeq(sent, pos + 1, Len(sent)), "\n")
             end == IF nl = 0 THEN Len(sent) ELSE pos + nl
         IN  IF \A i \in (pos + 1)..end : is_whitespace(sent[i])
             THEN end
             ELSE BlankLineEnd(sent, end)

\* the header lines of the stream: those after the request line and before the
\* blank line
RECURSIVE LinesFrom(_, _, _)
LinesFrom(sent, pos, end) ==
    IF pos >= end THEN <<>>
    ELSE LET nl == IndexOf(SubSeq(sent, pos + 1, end), "\n")
             stop == IF nl = 0 THEN end ELSE pos + nl
         IN  <<SubSeq(sent, pos + 1, stop)>> \o LinesFrom(sent, stop, end)

\* where the headers of the stream end
HeadEnd(sent) == BlankLineEnd(sent, IndexOf(sent, "\n"))

\* the texts after "content-length:", in any case, in the header lines
DeclaredLengths(sent) ==
    LET lines == LinesFrom(sent, IndexOf(sent, "\n"), HeadEnd(sent))
    IN  [i \in {j \in 1..Len(lines) :
                   /\ Len(lines[j]) > Len(sContentLength)
                   /\ fold(SubSeq(lines[j], 1, Len(sContentLength))) = sContentLengthLower
                   /\ lines[j][Len(sContentLength) + 1] = ":"} |->
            trim(SubSeq(lines[i], Len(sContentLength) + 2, Len(lines[i])))]

\* the text is a non-negative integer in decimal
IsUnsigned(s) == s # <<>> /\ \A i \in 1..Len(s) : is_digit(s[i])

\* the thread has read its request
RequestRead(c) == c.pc = "host" \/ c.pc = "dispatch" \/ Dispatched(c)

\* C9: the body the handler sees is what the Content-Length header, in any
\* case, announces: the next n bytes after the blank line when it is a
\* non-negative integer n, and nothing, with no byte after the headers read,
\* when it is absent or no such integer.
C9_BodyByContentLength ==
    \A t \in Conns :
        LET c == conn[t]
            lens == DeclaredLengths(c.sent)
            e == HeadEnd(c.sent)
            given == IF DOMAIN lens = {} THEN <<>>
                     ELSE lens[CHOOSE i \in DOMAIN lens : \A j \in DOMAIN lens : j <= i]
        IN  RequestRead(c) =>
                /\ IF IsUnsigned(given)
                   THEN /\ e + digits_value(given) <= Len(c.sent)
                        /\ c.req_body = SubSeq(c.sent, e + 1, e + digits_value(given))
                        /\ c.pos = e + digits_value(given)
                   ELSE /\ c.req_body = <<>>
                        /\ c.pos = e
                /\ (c.pc # "host") => c.req.req_body = c.req_body

\* C9 witness: one handler has been given the body a lower-case content-length
\* announced, with bytes after it unread, and another an empty body because no
\* Content-Length came with the bytes sent.
C9_Witness ==
    /\ \E t \in Conns :
          /\ conn[t].pc = "handler"
          /\ conn[t].req.req_body = JsonA2
          /\ conn[t].pos < Len(conn[t].sent)
    /\ \E t \in Conns :
          /\ conn[t].pc = "handler"
          /\ DOMAIN DeclaredLengths(conn[t].sent) = {}
          /\ conn[t].req.req_body = <<>>
          /\ conn[t].pos < Len(conn[t].sent)

\* the orders in which a set of header names can be iterated
Orders(names) ==
    {o \in [1..Cardinality(names) -> names] :
        \A i, j \in 1..Cardinality(names) : o[i] = o[j] => i = j}

RECURSIVE HeaderBlock(_, _)
HeaderBlock(headers, order) ==
    IF order = <<>> THEN <<>>
    ELSE header_line(order[1], headers[order[1]]) \o HeaderBlock(headers, Tail(order))

\* the head of the response for the request, its headers in the given order
SerializedHead(req, order) ==
    status_line(req.status) \o HeaderBlock(req.resp_headers, order)
    \o content_length_line(req.resp_body) \o NL

\* the response for the request, its headers in the given order
Serialized(req, order) == SerializedHead(req, order) \o req.resp_body

IsPrefix(a, b) == Len(a) <= Len(b) /\ a = SubSeq(b, 1, Len(a))

\* C10: a response is the status line, every header the handler set, the
\* Content-Length of the final body, a blank line and the body, in this order,
\* whatever the outcome; no byte of it is written before dispatch has finished.
C10_ResponseOrder ==
    \A t \in Conns :
        LET c == conn[t]
        IN  /\ ~Answering(c) => c.out = <<>>
            /\ c.pc = "write_status" => c.out = <<>>
            /\ Answering(c) =>
                  \E o \in Orders(DOMAIN c.req.resp_headers) :
                      IF c.pc = "done"
                      THEN c.out = Serialized(c.req, o)
                      ELSE IsPrefix(c.out, SerializedHead(c.req, o))

\* C10 witness: responses with two handler-set headers, one to a handler that
\* succeeded and one to a handler that failed, are written.
C10_Witness ==
    /\ \E t \in Conns :
          /\ conn[t].pc = "done"
          /\ conn[t].res = "true"
          /\ Cardinality(DOMAIN conn[t].req.resp_headers) = 2
    /\ \E t \in Conns :
          /\ conn[t].pc = "done"
          /\ conn[t].res = "err"
          /\ Cardinality(DOMAIN conn[t].req.resp_headers) = 2


-----------------------------------------------------------------------------
(* Failures while the request is read *)

\* the request line of the stream, and whether it has fewer than three tokens
FirstLine(sent) ==
    IF IndexOf(sent, "\n") = 0 THEN sent ELSE SubSeq(sent, 1, IndexOf(sent, "\n"))

MalformedRequestLine(sent) == Len(split_whitespace(FirstLine(sent))) < 3

\* the stream has no empty line after its request line
NoBlankLine(sent) ==
    \/ IndexOf(sent, "\n") = 0
    \/ LET lines == LinesFrom(sent, IndexOf(sent, "\n"), Len(sent))
       IN  \A i \in 1..Len(lines) : trim(lines[i]) # <<>>

\* the last Content-Length of the stream announces more bytes than follow
\* its headers
ShortBody(sent) ==
    LET lens == DeclaredLengths(sent)
        given == IF DOMAIN lens = {} THEN <<>>
                 ELSE lens[CHOOSE i \in DOMAIN lens : \A j \in DOMAIN lens : j <= i]
    IN  IsUnsigned(given) /\ HeadEnd(sent) + digits_value(given) > Len(sent)

\* reading the request of the thread fails
ReadFailure(c) ==
    \/ MalformedRequestLine(c.sent)
    \/ c.reset /\ NoBlankLine(c.sent)
    \/ ShortBody(c.sent)

Reading(c) == c.pc \in {"request_line", "headers", "body"}

\* C11: a failure while the request is read (a request line of fewer than
\* three tokens, a read error, a body shorter than its Content-Length) aborts
\* the connection before dispatch, with no handler invoked and no byte
\* written, and the step that aborts it changes neither the accept loop nor
\* any other connection.
C11_ReadFailureAborts ==
    /\ [](\A t \in Conns :
            LET c == conn[t]
            IN  (c.pc # "idle" /\ ReadFailure(c)) =>
                    /\ Reading(c) \/ (c.pc = "done" /\ c.ret = "err")
                    /\ c.invoked = 0
                    /\ c.route = 0
                    /\ c.out = <<>>)
    /\ [][\A t \in Conns :
            (Reading(conn[t]) /\ conn'[t].pc = "done") =>
                /\ ReadFailure(conn[t])
                /\ phase' = phase
                /\ accepted' = accepted
                /\ routes' = routes
                /\ dict' = dict
                /\ \A u \in Conns \ {t} : conn'[u] = conn[u]]_vars

\* C11 witness: a connection has been aborted for a short body while the
\* other thread, accepted after it, has its response written.
C11_Witness ==
    \E t, u \in Conns :
        /\ conn[t].pc = "done" /\ conn[t].ret = "err" /\ ShortBody(conn[t].sent)
        /\ conn[u].pc = "done" /\ conn[u].ret = "ok"
        /\ phase = "serving"


-----------------------------------------------------------------------------
(* The accept loop *)

\* C12: once the listener is bound the accept loop has no terminating state:
\* launch never returns, whatever fails.
C12_LaunchNeverReturns == [][phase = "serving" => phase' = "serving"]_vars


-----------------------------------------------------------------------------
(* One handler invocation and the response mutators *)

sContentTypeLower == fold(sContentType)
StatusCodes == {"Ok", "NotFound", "InternalServerError"}
HeaderNames == {sXA, sContentType, sContentTypeLower}
HeaderValues == {<<"1">>, ApplicationJson}
Texts == {<<>>, <<"h", "i">>}
Items == {DictItem(<<"a">>, <<"1">>), DictItem(<<"b">>, <<"2">>)}
ByteBodies == {<<>>, <<"1">>}

\* the handler makes one more call on its Request
Call(req, call) ==
    /\ Len(calls) < MaxCalls
    /\ hreq' = req
    /\ calls' = Append(calls, call)
    /\ UNCHANGED <<routes, routesLock, dict, dictLock, harnessVars, serveVars>>

SetStatus ==
    \E status \in StatusCodes :
        Call(set_status(hreq, status), [op |-> "set_status", arg |-> status])

SetHeader ==
    \E name \in HeaderNames, value \in HeaderValues :
        Call(set_header(hreq, name, value),
             [op |-> "set_header", name |-> name, arg |-> value])

SetContentType ==
    \E value \in HeaderValues :
        Call(set_content_type(hreq, value), [op |-> "set_content_type", arg |-> value])

WriteText ==
    \E body \in Texts :
        Call(write_text(hreq, body), [op |-> "write_text", arg |-> body])

WriteJson ==
    \E item \in Items :
        Call(write_json(hreq, item), [op |-> "write_json", arg |-> item])

WriteBytes ==
    \E body \in ByteBodies :
        Call(write_bytes(hreq, body), [op |-> "write_bytes", arg |-> body])

NextRequest ==
    \/ SetStatus
    \/ SetHeader
    \/ SetContentType
    \/ WriteText
    \/ WriteJson
    \/ WriteBytes

SpecRequest == Init /\ [][NextRequest]_vars

\* the greatest index of a set of calls, 0 when there is none
LastOf(S) == IF S = {} THEN 0 ELSE CHOOSE i \in S : \A j \in S : j <= i

BodyOps == {"write_text", "write_json", "write_bytes"}

\* the calls that set the header of the name
Setters(name) ==
    {i \in 1..Len(calls) :
        \/ calls[i].op = "set_header" /\ calls[i].name = name
        \/ calls[i].op \in BodyOps \cup {"set_content_type"} /\ name = sContentType}

\* the value the call gives the header it sets
ValueSet(call) ==
    CASE call.op = "write_text" -> TextPlain
      [] call.op = "write_json" -> ApplicationJson
      [] call.op = "write_bytes" -> OctetStream
      [] OTHER -> call.arg

\* the payload of a body-writing call
Payload(call) == IF call.op = "write_json" THEN to_vec(call.arg) ELSE call.arg

\* C13: the response mutators are last-call-wins: the status is that of the
\* last set_status (200 OK if none), each header has the value of the last
\* call that set it, the body is the payload of the last body-writing call
\* (empty if none), and Content-Type is the type of the last body-writing call
\* unless a later set_header or set_content_type replaced it.
C13_LastCallWins ==
    LET st == LastOf({i \in 1..Len(calls) : calls[i].op = "set_status"})
        bd == LastOf({i \in 1..Len(calls) : calls[i].op \in BodyOps})
    IN  /\ hreq.status = IF st = 0 THEN "Ok" ELSE calls[st].arg
        /\ status_code("Ok") = <<"2", "0", "0">>
        /\ hreq.resp_body = IF bd = 0 THEN <<>> ELSE Payload(calls[bd])
        /\ DOMAIN hreq.resp_headers = {n \in HeaderNames : Setters(n) # {}}
        /\ \A n \in DOMAIN hreq.resp_headers :
              hreq.resp_headers[n] = ValueSet(calls[LastOf(Setters(n))])

\* C13 witness: a handler has written JSON, replaced the Content-Type and then
\* written text, which sets the Content-Type again.
C13_Witness ==
    /\ Len(calls) = 3
    /\ calls[1].op = "write_json"
    /\ calls[2].op = "set_content_type"
    /\ calls[3].op = "write_text" /\ calls[3].arg # <<>>
    /\ hreq.resp_headers[sContentType] = TextPlain


-----------------------------------------------------------------------------
(* The order of the steps of one connection *)

\* the thread has returned from the handler it invoked, or found none
HandlerReturned(c) == c.res # "none"

\* C14: within one connection the request line, the headers and the whole
\* body are read before dispatch begins; at most one handler is invoked, at
\* most once; at most one response is written, and only after the handler has
\* returned; nothing is read from the stream after the body.
C14_StrictOrder ==
    /\ [](\A t \in Conns :
            LET c == conn[t]
            IN  /\ (c.pc = "dispatch" \/ Dispatched(c)) =>
                      /\ ~MalformedRequestLine(c.sent)
                      /\ c.method = split_whitespace(FirstLine(c.sent))[1]
                      /\ c.raw_path = split_whitespace(FirstLine(c.sent))[2]
                      /\ c.pos >= HeadEnd(c.sent)
                      /\ ~ShortBody(c.sent)
                      /\ c.req.req_body = c.req_body
                /\ c.invoked <= 1
                /\ c.invoked = 1 <=> c.route # 0
                /\ c.out # <<>> => HandlerReturned(c) /\ Answering(c)
                /\ (c.pc = "done" /\ c.ret = "ok") =>
                      \E o \in Orders(DOMAIN c.req.resp_headers) :
                          c.out = Serialized(c.req, o))
    /\ [][\A t \in Conns :
            /\ conn'[t].pos # conn[t].pos =>
                  Reading(conn[t]) \/ conn[t].pc \in {"idle", "done"}
            /\ conn'[t].invoked # conn[t].invoked =>
                  conn[t].pc \in {"dispatch", "done"}
            /\ (conn'[t].out # conn[t].out /\ conn[t].pc # "done") =>
                  /\ HandlerReturned(conn[t])
                  /\ IsPrefix(conn[t].out, conn'[t].out)
                  /\ conn'[t].pos = conn[t].pos]_vars

\* C14 witness: a connection whose client sent bytes after the body has its
\* one response written, its one handler invoked once, the bytes left unread.
C14_Witness ==
    \E t \in Conns :
        /\ conn[t].pc = "done" /\ conn[t].ret = "ok"
        /\ conn[t].invoked = 1
        /\ conn[t].req_body # <<>>
        /\ conn[t].pos < Len(conn[t].sent)


-----------------------------------------------------------------------------
(* The request headers *)

\* the line without its newline
chomp(line) ==
    IF line # <<>> /\ line[Len(line)] = "\n" THEN SubSeq(line, 1, Len(line) - 1)
    ELSE line

\* the header map of the non-empty lines among the lines given: each split
\* once at the first colon, the name up to case, the value without its leading
\* whitespace, later lines overwriting earlier ones
RECURSIVE HeadersOf(_, _)
HeadersOf(lines, m) ==
    IF lines = <<>> THEN m
    ELSE LET line == chomp(lines[1])
             parts == splitn2(line, ":")
             value == IF Len(parts) > 1 THEN trim_start(parts[2]) ELSE <<>>
         IN  IF line = <<>> THEN HeadersOf(Tail(lines), m)
             ELSE HeadersOf(Tail(lines), insert(m, fold(parts[1]), value))

\* the thread is past the header loop and has not failed
HeadersRead(c) == c.pc = "body" \/ RequestRead(c)

\* C15: the request header map has entries only for the non-empty lines
\* before the first empty line: one entry per line, split once at the first
\* colon, the value without its leading whitespace and empty when the line
\* has no colon, names equal up to case being one key that the later line
\* overwrites; and this is the map the handler is given.
C15_HeaderMap ==
    \A t \in Conns :
        LET c == conn[t]
            lines == LinesFrom(c.sent, IndexOf(c.sent, "\n"), HeadEnd(c.sent))
        IN  HeadersRead(c) =>
                /\ c.headers = HeadersOf(lines, EmptyMap)
                /\ Dispatched(c) => c.req.req_headers = c.headers


-----------------------------------------------------------------------------
(* The path parameters a handler is given *)

\* C16: whenever dispatch invokes the handler of a route, the path parameters
\* of the request have exactly the placeholder names of the route's pattern as
\* keys, each bound to the request path segment at the (last) position of the
\* placeholder, so path_param succeeds for every placeholder name of the
\* pattern and fails for any other name.
C16_PathParams ==
    \A t \in Conns :
        LET c == conn[t]
            P == routes[c.route].path.parts
            Q == from_str(c.raw_path).parts
        IN  c.pc = "handler" =>
                /\ DOMAIN c.req.path_params = {Tail(P[j]) : j \in Placeholders(P)}
                /\ \A j \in Placeholders(P) :
                      (\A k \in Placeholders(P) : P[k] = P[j] => k <= j)
                          => j <= Len(Q) /\ c.req.path_params[Tail(P[j])] = Q[j]
                /\ \A j \in Placeholders(P) : path_param(c.req, Tail(P[j])).ok
                /\ ~path_param(c.req, <<"z">>).ok


-----------------------------------------------------------------------------
(* The Host header *)

\* the header lines of the stream as a map, names up to case
StreamHeaders(sent) ==
    HeadersOf(LinesFrom(sent, IndexOf(sent, "\n"), HeadEnd(sent)), EmptyMap)

\* the stream carries a Host header, in any case, that a URL can be built from
ValidHost(sent) ==
    /\ HostName \in DOMAIN StreamHeaders(sent)
    /\ host_ok(StreamHeaders(sent)[HostName])

\* C17: a request reaches dispatch only if it carries a Host header, looked up
\* up to case, from which a URL can be built; when the header is absent or
\* unparsable the connection is aborted once the request is read, with no
\* handler invoked and no byte written, whatever the routes; when it is
\* present and valid exactly one response (the handler's, 404 or 500) is
\* written.
C17_HostRequired ==
    \A t \in Conns :
        LET c == conn[t]
        IN  /\ (c.pc = "dispatch" \/ Dispatched(c)) => ValidHost(c.sent)
            /\ (c.pc = "done" /\ ~ReadFailure(c) /\ ~ValidHost(c.sent)) =>
                  /\ c.ret = "err"
                  /\ c.pos >= HeadEnd(c.sent)
                  /\ c.invoked = 0
                  /\ c.out = <<>>
            /\ (c.pc = "done" /\ ~ReadFailure(c) /\ ValidHost(c.sent)) =>
                  /\ c.ret = "ok"
                  /\ c.res \in {"true", "false", "err"}
                  /\ c.res = "false" => c.req.status = "NotFound"
                  /\ c.res = "err" => c.req.status = "InternalServerError"
                  /\ \E o \in Orders(DOMAIN c.req.resp_headers) :
                        c.out = Serialized(c.req, o)

\* C17 witness: a request without a Host header that a route matches has been
\* read to its end and its connection aborted, and a request with a lower-case
\* host header has been answered.
C17_Witness ==
    \E t, u \in Conns :
        /\ conn[t].pc = "done" /\ conn[t].ret = "err"
        /\ ~ReadFailure(conn[t])
        /\ HostName \notin DOMAIN StreamHeaders(conn[t].sent)
        /\ find_route(routes, conn[t].method, from_str(conn[t].raw_path), 1) # 0
        /\ conn[u].pc = "done" /\ conn[u].ret = "ok"
        /\ IsPrefix(request_line(GET, sAB) \o sHostLower, conn[u].sent)


-----------------------------------------------------------------------------
(* The route table of a launched Server *)

\* the thread is inside dispatch_request with a handler running
InHandler(c) == c.pc \in {"handler", "get_held", "post_held", "post_insert"}

\* C18: once launch has begun the route table stays the sequence of routes
\* registered before it; threads take only read access to the table, nobody
\* asks for write access, and so a dispatch never blocks on the table, not
\* even while other threads run their handlers under the read access.
C18_RoutesReadOnly ==
    /\ [](/\ routes \in LaunchRoutes
          /\ ~routesLock.writer
          /\ routesLock.readers = Cardinality({t \in Conns : InHandler(conn[t])})
          /\ \A t \in Conns :
                conn[t].pc = "dispatch" => routes_guard(routesLock).ok)
    /\ [][/\ routes' = routes
          /\ routesLock' # routesLock =>
                \E t \in Conns :
                    /\ conn'[t] # conn[t]
                    /\ InHandler(conn[t]) # InHandler(conn'[t])]_vars

\* C18 witness: both threads run their handlers at once, each under its own
\* read access to the table.
C18_Witness ==
    /\ routesLock.readers = 2
    /\ \A t \in Conns : conn[t].pc = "handler"


-----------------------------------------------------------------------------
(* Registration *)

\* C19: a registration whose string lacks the method token or the pattern
\* token fails and leaves the route table as it was; any other appends exactly
\* one route, of the method, the parsed pattern and the handler given, at the
\* end of the table, the routes registered before keeping content and order.
C19_Registration ==
    [][last' \in {"route", "route_err"} =>
          LET tokens == split_whitespace(routeArg'.s)
          IN  IF Len(tokens) < 2
              THEN /\ last' = "route_err"
                   /\ routes' = routes
              ELSE /\ last' = "route"
                   /\ Len(routes') = Len(routes) + 1
                   /\ SubSeq(routes', 1, Len(routes)) = routes
                   /\ routes'[Len(routes')].method = tokens[1]
                   /\ routes'[Len(routes')].path.parts = split(tokens[2], "/")
                   /\ routes'[Len(routes')].handler = routeArg'.handler]_vars

\* C19 witness: after two different routes were registered one behind the
\* other, a string with a method and no pattern has been refused.
C19_Witness ==
    /\ last = "route_err"
    /\ Len(split_whitespace(routeArg.s)) = 1
    /\ Len(routes) = 2
    /\ routes[1] # routes[2]


-----------------------------------------------------------------------------
(* Termination of a connection handler *)

\* handle_connection has returned: the response is written, or the
\* connection is aborted with an error
Terminal(c) == c.pc = "done" /\ c.ret \in {"ok", "err"}

\* C20: every connection handler that is started runs to completion, with its
\* response written or its connection aborted, also when the stream ends
\* inside the headers.
C20_HandlerTerminates ==
    \A t \in Conns : (conn[t].pc = "request_line") ~> Terminal(conn[t])

\* C20 witness: the handler of a stream that ended inside the headers, with
\* no blank line, has left the header loop and written its response.
C20_Witness ==
    \E t \in Conns :
        /\ Terminal(conn[t]) /\ conn[t].ret = "ok"
        /\ ~conn[t].reset
        /\ NoBlankLine(conn[t].sent)

====
